---- MODULE Spec2Model ----
(***************************************************************************)
(* Complaint intake and triage: the submission form (validation, the       *)
(* analyze-complaint edge function, the insert), the complaints table with *)
(* its triggers and row-level security policies, and the admin review      *)
(* update.                                                                 *)
(***************************************************************************)
EXTENDS Integers, Sequences, FiniteSets, TLC

VARIABLES
  complaints,  \* public.complaints: the committed rows, in commit order
  now,         \* the database clock, in calendar years since BaseYear
  form,        \* one ComplaintForm per student: its React state and the position of handleSubmit
  resp,        \* the request a client sent straight to the table and its unread response
  http,        \* the last request the analyze-complaint endpoint served, with its response
  dash         \* the dashboard that is mounted: its user, its list and its reloads in flight

vars == <<complaints, now, form, resp, http, dash>>

----------------------------------------------------------------------------
(* Bounds of the model *)

\* rows the forms may create (committed rows plus submissions in flight)
MaxRows == 2
\* rows the direct table requests may create
MaxApiRows == 2
\* reloads a dashboard may have in flight
MaxReloads == 2
\* rows in the table while a dashboard is watched
MaxDashRows == 1
\* last tick of the clock
MaxTime == 1
\* the calendar year of tick 0
BaseYear == 2025
\* longest run of blanks around a typed text
MaxPad == 2

----------------------------------------------------------------------------
(* Users and roles *)

Students == {"s1", "s2"}
Admins == {"a1"}
Users == Students \cup Admins

\* handle_new_user gives every account the student role; admin is granted on top
user_roles == {<<u, "student">> : u \in Users} \cup {<<u, "admin">> : u \in Admins}

has_role(_user_id, _role) == <<_user_id, _role>> \in user_roles

----------------------------------------------------------------------------
(* Values *)

NULL == "NULL"            \* SQL NULL / JSON null
UNDEF == "undefined"      \* a JavaScript property that is absent

complaint_priority == {"Low", "Medium", "High"}
complaint_status == {"Pending", "In Progress", "Resolved", "Withdrawn"}

categories == {"Infrastructure", "Faculty", "Curriculum", "Administration",
               "Facilities", "Other"}

\* A text is a sequence of characters; only blank or not matters to the code.
Blanks(n) == [i \in 1..n |-> " "]
Letters(n) == [i \in 1..n |-> "a"]
Text(lead, n, trail) == Blanks(lead) \o Letters(n) \o Blanks(trail)

\* String.prototype.trim, as zod's .trim() applies it before the length checks
RECURSIVE FirstNonBlank(_, _)
FirstNonBlank(s, i) == IF i > Len(s) \/ s[i] # " " THEN i ELSE FirstNonBlank(s, i + 1)
RECURSIVE LastNonBlank(_, _)
LastNonBlank(s, i) == IF i < 1 \/ s[i] # " " THEN i ELSE LastNonBlank(s, i - 1)

Trim(s) ==
  LET lo == FirstNonBlank(s, 1)
      hi == LastNonBlank(s, Len(s))
  IN IF lo > hi THEN <<>> ELSE SubSeq(s, lo, hi)

----------------------------------------------------------------------------
(* complaintSchema *)

TITLE_MIN == 5
TITLE_MAX == 200
DESCRIPTION_MIN == 20
DESCRIPTION_MAX == 2000
CATEGORY_MIN == 1

\* the title rule with its lower limit off by one
TitleIssuesOffByOne(title) ==
  LET t == Trim(title)
  IN (IF Len(t) <= TITLE_MIN THEN <<<<"title", "Title must be at least 5 characters">>>> ELSE <<>>)
     \o (IF Len(t) > TITLE_MAX THEN <<<<"title", "Title too long">>>> ELSE <<>>)

\* the issues of one field, as the pairs <<path[0], message>> in zod's order
TitleIssues(title) ==
  LET t == Trim(title)
  IN (IF Len(t) < TITLE_MIN THEN <<<<"title", "Title must be at least 5 characters">>>> ELSE <<>>)
     \o (IF Len(t) > TITLE_MAX THEN <<<<"title", "Title too long">>>> ELSE <<>>)

DescriptionIssues(description) ==
  LET d == Trim(description)
  IN (IF Len(d) < DESCRIPTION_MIN
        THEN <<<<"description", "Description must be at least 20 characters">>>> ELSE <<>>)
     \o (IF Len(d) > DESCRIPTION_MAX THEN <<<<"description", "Description too long">>>> ELSE <<>>)

CategoryIssues(category) ==
  IF Len(category) < CATEGORY_MIN THEN <<<<"category", "Please select a category">>>> ELSE <<>>

\* complaintSchema.safeParse({title, description, category})
safeParse(title, description, category) ==
  LET issues == TitleIssues(title) \o DescriptionIssues(description) \o CategoryIssues(category)
  IN [success |-> issues = <<>>,
      errors |-> issues,
      data |-> [title |-> Trim(title), description |-> Trim(description), category |-> category]]

Fields == {"title", "description", "category"}

\* The errors state of the form: the message of each key, UNDEF for a key it lacks
NoErrors == [k \in Fields |-> UNDEF]
ErrorKeys(errors) == {k \in Fields : errors[k] # UNDEF}

\* newErrors keeping the first issue only
NewErrorsFirstOnly(issues) ==
  [k \in Fields |-> IF issues # <<>> /\ issues[1][1] = k THEN issues[1][2] ELSE UNDEF]

\* newErrors of handleSubmit: validation.error.errors.forEach writes by path[0]; a
\* later issue of the same key overwrites an earlier one
NewErrors(issues) ==
  LET at(k) == {i \in 1..Len(issues) : issues[i][1] = k}
      last(k) == CHOOSE i \in at(k) : \A j \in at(k) : j <= i
  IN [k \in Fields |-> IF at(k) = {} THEN UNDEF ELSE issues[last(k)][2]]

----------------------------------------------------------------------------
(* Ticket codes *)

\* A complaint_id text. year is Y when the text starts with 'CMP-Y-' (it then
\* matches LIKE 'CMP-Y-%') and 0 when it has no such prefix; tail is the rest.
Code(year, tail) == [year |-> year, tail |-> tail]
EmptyCode == Code(0, <<>>)
NullCode == Code(-1, <<>>)    \* complaint_id IS NULL

DigitChars == <<"0", "1", "2", "3", "4", "5", "6", "7", "8", "9">>

\* count_num::TEXT
RECURSIVE IntToText(_)
IntToText(n) ==
  IF n < 10 THEN <<DigitChars[n + 1]>> ELSE IntToText(n \div 10) \o <<DigitChars[(n % 10) + 1]>>

\* LPAD(string, length, fill): pads on the left, and cuts a longer string to length
LPAD(s, length, fill) ==
  IF Len(s) >= length THEN SubSeq(s, 1, length)
  ELSE [i \in 1..(length - Len(s)) |-> fill] \o s

CODE_WIDTH == 3

\* TO_CHAR(NOW(), 'YYYY')
YearOf(t) == BaseYear + t

\* generate_complaint_id(), reading the committed rows
generate_complaint_id(table, t) ==
  LET year_str == YearOf(t)
      count_num == Cardinality({i \in 1..Len(table) : table[i].complaint_id.year = year_str}) + 1
  IN Code(year_str, LPAD(IntToText(count_num), CODE_WIDTH, "0"))

\* set_complaint_id(), the BEFORE INSERT trigger
set_complaint_id(new_row, table, t) ==
  IF new_row.complaint_id = NullCode \/ new_row.complaint_id = EmptyCode
    THEN [new_row EXCEPT !.complaint_id = generate_complaint_id(table, t)]
    ELSE new_row

\* update_updated_at_column(), the BEFORE UPDATE trigger
update_updated_at_column(new_row, t) == [new_row EXCEPT !.updated_at = t]

----------------------------------------------------------------------------
(* Row-level security policies for complaints *)

\* the policy with its ownership test left out
StudentsCanViewAny(uid, row) == has_role(uid, "student")

\* "Students can view their own complaints"
StudentsCanView(uid, row) == uid = row.student_id
\* "Admins can view all complaints"
AdminsCanView(uid, row) == has_role(uid, "admin")
\* "Students can insert their own complaints"
StudentsCanInsert(uid, row) == uid = row.student_id
\* the policy with its status test left out
StudentsCanUpdateAnyStatus(uid, row) == uid = row.student_id

\* "Students can update their own pending complaints"
StudentsCanUpdate(uid, row) == uid = row.student_id /\ row.status = "Pending"
\* "Admins can update all complaints"
AdminsCanUpdate(uid, row) == has_role(uid, "admin")

\* Permissive policies of one command are OR-ed
SelectUsing(uid, row) == StudentsCanView(uid, row) \/ AdminsCanView(uid, row)
InsertCheck(uid, row) == StudentsCanInsert(uid, row)
UpdateUsing(uid, row) == StudentsCanUpdate(uid, row) \/ AdminsCanUpdate(uid, row)
\* An UPDATE policy without WITH CHECK checks the new row with its USING expression
UpdateCheck(uid, row) == StudentsCanUpdate(uid, row) \/ AdminsCanUpdate(uid, row)

----------------------------------------------------------------------------
(* The complaints table *)

\* A number that may be absent: <<>> when NULL or undefined, <<n>> for n. Scores
\* are held in thousandths.
NoNumber == <<>>
Number(n) == <<n>>

\* ai_priority_score DECIMAL(3,2): rounds to two decimals (half away from zero)
Numeric32(v) ==
  IF v >= 0 THEN ((v + 5) \div 10) * 10 ELSE 0 - (((0 - v) + 5) \div 10) * 10
NumericOverflow(v) == Numeric32(v) >= 10000 \/ Numeric32(v) <= -10000

Absent(v) == v = UNDEF \/ v = NULL
OrNull(v) == IF v = UNDEF THEN NULL ELSE v

\* The row an INSERT of payload p builds, column defaults applied, before the triggers
NewRow(p, table, t) ==
  [id |-> Len(table) + 1,
   complaint_id |-> p.complaint_id,
   student_id |-> OrNull(p.student_id),
   title |-> p.title,
   description |-> p.description,
   category |-> OrNull(p.category),
   ai_suggested_category |-> OrNull(p.ai_suggested_category),
   priority |-> IF p.priority = UNDEF THEN "Medium" ELSE p.priority,
   ai_priority_score |-> IF p.ai_priority_score = NoNumber THEN NoNumber
                         ELSE Number(Numeric32(p.ai_priority_score[1])),
   status |-> IF p.status = UNDEF THEN "Pending" ELSE p.status,
   admin_response |-> OrNull(p.admin_response),
   ai_suggested_response |-> OrNull(p.ai_suggested_response),
   created_at |-> t,
   updated_at |-> t]

\* What stops an INSERT before the unique index is consulted: input of the wrong
\* type, NOT NULL, the policy check
InsertStatementError(uid, p) ==
  IF p.priority \notin complaint_priority \cup {UNDEF, NULL} THEN "invalid enum"
  ELSE IF p.status \notin complaint_status \cup {UNDEF} THEN "invalid enum"
  ELSE IF p.ai_priority_score # NoNumber /\ NumericOverflow(p.ai_priority_score[1])
    THEN "numeric overflow"
  ELSE IF Absent(p.student_id) THEN "not null"
  ELSE IF ~InsertCheck(uid, p) THEN "row-level security"
  ELSE "none"

\* complaint_id TEXT NOT NULL UNIQUE
UniqueViolation(row, table) ==
  \E i \in 1..Len(table) : table[i].id # row.id /\ table[i].complaint_id = row.complaint_id

\* An UPDATE ... WHERE id = rid by uid: [table, error, rows]
ApplyPatch(row, patch) ==
  [f \in DOMAIN row |-> IF f \in DOMAIN patch THEN patch[f] ELSE row[f]]

DbUpdate(uid, rid, patch, table, t) ==
  LET hit == {i \in 1..Len(table) :
                 /\ table[i].id = rid
                 /\ SelectUsing(uid, table[i])
                 /\ UpdateUsing(uid, table[i])}
      i == CHOOSE i \in hit : TRUE
      new_row == update_updated_at_column(ApplyPatch(table[i], patch), t)
  IN IF hit = {} THEN [table |-> table, error |-> "none", rows |-> {}]
     ELSE IF ~(UpdateCheck(uid, new_row) /\ SelectUsing(uid, new_row))
       THEN [table |-> table, error |-> "row-level security", rows |-> {}]
     ELSE IF UniqueViolation(new_row, table)
       THEN [table |-> table, error |-> "unique", rows |-> {}]
     ELSE [table |-> [table EXCEPT ![i] = new_row], error |-> "none", rows |-> {rid}]

\* A SELECT * by uid: the ids of the rows returned
DbSelect(uid, table) == {table[i].id : i \in {j \in 1..Len(table) : SelectUsing(uid, table[j])}}

----------------------------------------------------------------------------
(* The analyze-complaint edge function *)

\* The arguments text of a tool call: valid JSON carrying a value, or not JSON
\* A JSON value is null or an object; a property the object lacks reads UNDEF
\* (NoNumber for the score)
Analysis(c, p, s, r) ==
  [isNull |-> FALSE, suggestedCategory |-> c, priority |-> p, priorityScore |-> s,
   suggestedResponse |-> r]
JsonNull ==
  [isNull |-> TRUE, suggestedCategory |-> UNDEF, priority |-> UNDEF, priorityScore |-> NoNumber,
   suggestedResponse |-> UNDEF]

JsonText(v) == [valid |-> TRUE, value |-> v]
NotJson == [valid |-> FALSE, value |-> JsonNull]

GoodAnalysis == Analysis("Facilities", "High", Number(900), "draft")
EmptyObject == Analysis(UNDEF, UNDEF, NoNumber, UNDEF)
BadPriority == Analysis("Facilities", "Urgent", Number(900), "draft")

\* What the AI gateway may answer: a status that is not ok, or a completion with
\* or without a tool call
GatewayStatus(n) == [ok |-> FALSE, status |-> n, toolCall |-> FALSE, arguments |-> NotJson]
GatewayNoToolCall == [ok |-> TRUE, status |-> 200, toolCall |-> FALSE, arguments |-> NotJson]
GatewayOk(args) == [ok |-> TRUE, status |-> 200, toolCall |-> TRUE, arguments |-> args]

Upstreams ==
  {GatewayStatus(429), GatewayStatus(402), GatewayStatus(503), GatewayNoToolCall,
   GatewayOk(NotJson), GatewayOk(JsonText(JsonNull)), GatewayOk(JsonText(GoodAnalysis)),
   GatewayOk(JsonText(EmptyObject)), GatewayOk(JsonText(BadPriority))}

ErrorBody(msg) == [error |-> msg]

\* the handler without its 402 branch: a billing rejection falls through to the throw
analyze_complaintNo402(keySet, up) ==
  IF ~keySet THEN [status |-> 500, body |-> ErrorBody("LOVABLE_API_KEY is not configured")]
  ELSE IF ~up.ok THEN
    IF up.status = 429
      THEN [status |-> 429, body |-> ErrorBody("Rate limit exceeded. Please try again later.")]
    ELSE [status |-> 500, body |-> ErrorBody("AI Gateway error")]
  ELSE IF ~up.toolCall
    THEN [status |-> 500, body |-> ErrorBody("No valid response from AI")]
  ELSE IF ~up.arguments.valid
    THEN [status |-> 500, body |-> ErrorBody("Unexpected token")]
  ELSE [status |-> 200, body |-> up.arguments.value]

\* serve(async (req) => ...) for a POST: the response, given whether
\* LOVABLE_API_KEY is set and what the gateway answered
analyze_complaint(keySet, up) ==
  IF ~keySet THEN [status |-> 500, body |-> ErrorBody("LOVABLE_API_KEY is not configured")]
  ELSE IF ~up.ok THEN
    IF up.status = 429
      THEN [status |-> 429, body |-> ErrorBody("Rate limit exceeded. Please try again later.")]
    ELSE IF up.status = 402
      THEN [status |-> 402,
            body |-> ErrorBody("AI service requires payment. Please contact administrator.")]
    ELSE [status |-> 500, body |-> ErrorBody("AI Gateway error")]
  ELSE IF ~up.toolCall
    THEN [status |-> 500, body |-> ErrorBody("No valid response from AI")]
  ELSE IF ~up.arguments.valid
    THEN [status |-> 500, body |-> ErrorBody("Unexpected token")]
  ELSE [status |-> 200, body |-> up.arguments.value]

\* serve(async (req) => ...): OPTIONS is answered before the try block; inside
\* it req.json() comes first and throws on a body that is not JSON
serve(method, bodyOk, keySet, up) ==
  IF method = "OPTIONS" THEN [status |-> 200, body |-> JsonNull]
  ELSE IF ~bodyOk THEN [status |-> 500, body |-> ErrorBody("Unexpected end of JSON input")]
  ELSE analyze_complaint(keySet, up)

\* The tool's declared parameters: four required properties, two of them enumerated
MatchesToolSchema(v) ==
  /\ ~v.isNull
  /\ v.suggestedCategory \in categories
  /\ v.priority \in complaint_priority
  /\ v.priorityScore # NoNumber
  /\ v.suggestedResponse \notin {UNDEF, NULL}

\* The failure mode of one classification, "none" when it succeeded
Fault(keySet, up) ==
  IF ~keySet THEN "credential"
  ELSE IF ~up.ok THEN
    (IF up.status = 429 THEN "rate limit" ELSE IF up.status = 402 THEN "billing" ELSE "upstream")
  ELSE IF ~up.toolCall THEN "absent result"
  ELSE IF ~up.arguments.valid THEN "malformed result"
  ELSE IF ~MatchesToolSchema(up.arguments.value) THEN "malformed result"
  ELSE "none"

\* no request served yet
NoHttp ==
  [method |-> "none", bodyOk |-> TRUE, keySet |-> TRUE, up |-> GatewayNoToolCall,
   status |-> 0, error |-> "none", analysis |-> JsonNull]

----------------------------------------------------------------------------
(* ComplaintForm *)

NoRequest == [none |-> TRUE]

IdleForm ==
  [pc |-> "idle", loading |-> FALSE, calls |-> 0,
   title |-> <<>>, description |-> <<>>, category |-> "",
   errors |-> NoErrors, toast |-> "none", fault |-> "none", functionData |-> JsonNull,
   req |-> NoRequest, error |-> "none"]

InFlight == {u \in Students : form[u].pc # "idle"}

\* what the users of the model type into the form: a valid complaint (blanks
\* around the title), a title too short once trimmed, no category selected
FormInput(t, d, c) == [title |-> t, description |-> d, category |-> c]
FormInputs ==
  {FormInput(Text(1, 5, 0), Text(0, 20, 0), "Facilities"),
   FormInput(Text(0, 4, 1), Text(0, 20, 0), "Facilities"),
   FormInput(Text(0, 5, 0), Text(0, 20, 0), "")}

\* handleSubmit without the return that follows a failed validation
HandleSubmitUnchecked(u, title, description, category) ==
  LET typed == [form[u] EXCEPT !.title = title, !.description = description,
                               !.category = category]
  IN /\ form[u].pc = "idle"
     /\ ~form[u].loading
     /\ Len(complaints) + Cardinality(InFlight) < MaxRows
     /\ form' = [form EXCEPT ![u] = [typed EXCEPT !.errors = NoErrors, !.loading = TRUE,
                                                   !.pc = "invoking", !.calls = @ + 1]]
     /\ UNCHANGED <<complaints, now, resp, http, dash>>

\* handleSubmit reached while the button should be disabled
HandleSubmitWhileLoading(u, title, description, category) ==
  LET validation == safeParse(title, description, category)
      typed == [form[u] EXCEPT !.title = title, !.description = description,
                               !.category = category]
  IN /\ form[u].calls < 2
     /\ Len(complaints) + Cardinality(InFlight) < MaxRows
     /\ IF ~validation.success
          THEN form' = [form EXCEPT ![u] = [typed EXCEPT !.errors = NewErrors(validation.errors)]]
          ELSE form' = [form EXCEPT ![u] = [typed EXCEPT !.errors = NoErrors, !.loading = TRUE,
                                                        !.pc = "invoking", !.calls = @ + 1]]
     /\ UNCHANGED <<complaints, now, resp, http, dash>>

\* handleSubmit up to its first await. The submit button is disabled while loading.
HandleSubmit(u, title, description, category) ==
  LET validation == safeParse(title, description, category)
      typed == [form[u] EXCEPT !.title = title, !.description = description,
                               !.category = category]
  IN /\ form[u].pc = "idle"
     /\ ~form[u].loading
     /\ Len(complaints) + Cardinality(InFlight) < MaxRows
     /\ IF ~validation.success
          THEN form' = [form EXCEPT ![u] = [typed EXCEPT !.errors = NewErrors(validation.errors)]]
          ELSE form' = [form EXCEPT ![u] = [typed EXCEPT !.errors = NoErrors, !.loading = TRUE,
                                                        !.pc = "invoking", !.calls = @ + 1]]
     /\ UNCHANGED <<complaints, now, resp, http, dash>>

\* the insert payload handleSubmit builds from validation.data and functionData
InsertPayload(u, data, functionData) ==
  [student_id |-> u,
   title |-> data.title,
   description |-> data.description,
   category |-> data.category,
   ai_suggested_category |-> functionData.suggestedCategory,
   priority |-> functionData.priority,
   ai_priority_score |-> functionData.priorityScore,
   ai_suggested_response |-> functionData.suggestedResponse,
   complaint_id |-> EmptyCode,
   status |-> UNDEF,
   admin_response |-> UNDEF]

\* the catch block without the finally block
CaughtNoFinally(f) == [f EXCEPT !.toast = "Error", !.pc = "idle", !.calls = @ - 1,
                                !.req = NoRequest, !.error = "none", !.fault = "none",
                                !.functionData = JsonNull]

\* the catch and finally blocks of handleSubmit
Caught(f) == [f EXCEPT !.toast = "Error", !.loading = FALSE, !.pc = "idle", !.calls = @ - 1,
                       !.req = NoRequest, !.error = "none", !.fault = "none",
                       !.functionData = JsonNull]

\* handleSubmit from the answer of functions.invoke to the insert it sends
AnalyzeReturn(u, keySet, up) ==
  LET r == serve("POST", TRUE, keySet, up)
      functionError == r.status # 200
      functionData == r.body
      data == safeParse(form[u].title, form[u].description, form[u].category).data
  IN /\ form[u].pc = "invoking"
     /\ IF functionError \/ functionData.isNull
          THEN form' = [form EXCEPT ![u] = Caught(form[u])]
          ELSE form' = [form EXCEPT ![u] = [form[u] EXCEPT
                          !.pc = "inserting",
                          !.fault = Fault(keySet, up),
                          !.functionData = functionData,
                          !.req = InsertPayload(u, data, functionData)]]
     /\ UNCHANGED <<complaints, now, resp, http, dash>>

\* The INSERT statement of the form, up to the unique index: input checks,
\* column defaults, the BEFORE INSERT trigger, the policy check
InsertTrigger(u) ==
  LET err == InsertStatementError(u, form[u].req)
      new_row == set_complaint_id(NewRow(form[u].req, complaints, now), complaints, now)
  IN /\ form[u].pc = "inserting"
     /\ IF err # "none"
          THEN form' = [form EXCEPT ![u] = [form[u] EXCEPT !.pc = "responded", !.error = err,
                                                          !.req = NoRequest]]
          ELSE form' = [form EXCEPT ![u] = [form[u] EXCEPT !.pc = "triggered", !.req = new_row]]
     /\ UNCHANGED <<complaints, now, resp, http, dash>>

\* The INSERT reaches the unique index on complaint_id and commits, or fails
InsertCommit(u) ==
  LET new_row == [form[u].req EXCEPT !.id = Len(complaints) + 1]
  IN /\ form[u].pc = "triggered"
     /\ IF UniqueViolation(new_row, complaints)
          THEN /\ form' = [form EXCEPT ![u] = [form[u] EXCEPT !.pc = "responded",
                                                             !.error = "unique"]]
               /\ UNCHANGED complaints
          ELSE /\ form' = [form EXCEPT ![u] = [form[u] EXCEPT !.pc = "responded",
                                                             !.error = "none"]]
               /\ complaints' = Append(complaints, new_row)
     /\ UNCHANGED <<now, resp, http, dash>>

\* handleSubmit from the answer of the insert to its end
InsertReturn(u) ==
  /\ form[u].pc = "responded"
  /\ IF form[u].error # "none"
       THEN form' = [form EXCEPT ![u] = Caught(form[u])]
       ELSE form' = [form EXCEPT ![u] = [IdleForm EXCEPT !.toast = "Success",
                                                         !.calls = form[u].calls - 1]]
  /\ UNCHANGED <<complaints, now, resp, http, dash>>

----------------------------------------------------------------------------
(* AdminDashboard *)

\* the statuses the ComplaintCard select offers
STATUS_OPTIONS == {"Pending", "In Progress", "Resolved"}
ResponseInputs == {"reply"}

NoResp == [op |-> "none", actor |-> "none", error |-> "none", rows |-> {}]
Response(op, a, error, rows) == [op |-> op, actor |-> a, error |-> error, rows |-> rows]

\* updateComplaint writing the title as well
updateComplaintAndTitle(a, rid, status, response) ==
  LET r == DbUpdate(a, rid, [status |-> status, admin_response |-> response, title |-> <<>>],
                    complaints, now)
  IN /\ resp = NoResp
     /\ rid \in 1..Len(complaints)
     /\ complaints' = r.table
     /\ resp' = Response("updateComplaint", a, r.error, r.rows)
     /\ UNCHANGED <<now, form, http, dash>>

\* updateComplaint(id, status, response)
updateComplaint(a, rid, status, response) ==
  LET r == DbUpdate(a, rid, [status |-> status, admin_response |-> response], complaints, now)
  IN /\ resp = NoResp
     /\ rid \in 1..Len(complaints)
     /\ complaints' = r.table
     /\ resp' = Response("updateComplaint", a, r.error, r.rows)
     /\ UNCHANGED <<now, form, http, dash>>

----------------------------------------------------------------------------
(* StudentDashboard and AdminDashboard: the list and its reloads *)

\* a card that is not rendered
NoCard == [status |-> "none", response |-> "", chosen |-> FALSE]

\* ComplaintCard on mount: useState(complaint.status) and
\* useState(complaint.admin_response || ""); chosen records a setStatus since
NewCard(complaint) ==
  [status |-> complaint.status,
   response |-> IF complaint.admin_response = NULL THEN "" ELSE complaint.admin_response,
   chosen |-> FALSE]

NoCards == [rid \in 1..MaxDashRows |-> NoCard]

\* no dashboard is mounted
NoDashboard ==
  [user |-> "none", list |-> {}, sent |-> 0, answered |-> {}, notified |-> {},
   loading |-> TRUE, profiles |-> 0, cards |-> NoCards]

\* what loadComplaints of d's dashboard selects: every row for an admin, the
\* rows with student_id = d for a student, through the SELECT policies
DashboardRows(d, table) ==
  {table[i] : i \in {j \in DbSelect(d, table) : d \in Admins \/ table[j].student_id = d}}

\* the cards of the admin dashboard after a render: none while loading, else
\* one per complaint of the list, keyed by complaint.id, so that a card that
\* was rendered before keeps its state and a new one takes it from its complaint
RenderCards(d, list, loading, cards) ==
  [rid \in 1..MaxDashRows |->
     IF d \notin Admins \/ loading \/ ~(\E c \in list : c.id = rid) THEN NoCard
     ELSE IF cards[rid] # NoCard THEN cards[rid]
     ELSE NewCard(CHOOSE c \in list : c.id = rid)]

\* reloads of the mounted dashboard that are not finished
Outstanding == dash.sent + Cardinality(dash.answered) + dash.profiles

\* useEffect on mount: loadComplaints() and the subscription to postgres_changes
Mount(d) ==
  /\ dash = NoDashboard
  /\ dash' = [user |-> d, list |-> {}, sent |-> 1, answered |-> {},
              notified |-> DashboardRows(d, complaints),
              loading |-> TRUE, profiles |-> 0, cards |-> NoCards]
  /\ UNCHANGED <<complaints, now, form, resp, http>>

\* the postgres_changes callback: a change of the rows the subscription covers
\* is delivered and loadComplaints() sets loading and sends its select
PostgresChange ==
  /\ dash.user # "none"
  /\ dash.notified # DashboardRows(dash.user, complaints)
  /\ Outstanding < MaxReloads
  /\ dash' = [dash EXCEPT !.notified = DashboardRows(dash.user, complaints), !.sent = @ + 1,
                          !.loading = TRUE, !.cards = NoCards]
  /\ UNCHANGED <<complaints, now, form, resp, http>>

\* the database runs the select of one reload
LoadSelect ==
  /\ dash.sent > 0
  /\ dash' = [dash EXCEPT !.sent = @ - 1,
                          !.answered = @ \cup {DashboardRows(dash.user, complaints)}]
  /\ UNCHANGED <<complaints, now, form, resp, http>>

\* loadComplaints after its await: setComplaints(data), whichever answer
\* arrives; the student dashboard goes on to setLoading(false), the admin
\* dashboard awaits the profiles first
LoadReturn ==
  \E data \in dash.answered :
    LET admin == dash.user \in Admins
        loading == admin /\ dash.loading
    IN /\ dash' = [dash EXCEPT !.answered = @ \ {data}, !.list = data,
                               !.loading = loading,
                               !.profiles = IF admin THEN @ + 1 ELSE @,
                               !.cards = RenderCards(dash.user, data, loading, @)]
       /\ UNCHANGED <<complaints, now, form, resp, http>>

\* loadComplaints of the admin dashboard after the profiles: setProfiles and
\* setLoading(false)
ProfilesReturn ==
  /\ dash.profiles > 0
  /\ dash' = [dash EXCEPT !.profiles = @ - 1, !.loading = FALSE,
                          !.cards = RenderCards(dash.user, dash.list, FALSE, @)]
  /\ UNCHANGED <<complaints, now, form, resp, http>>

\* the Select of a card: onValueChange={setStatus}
setStatus(rid, status) ==
  /\ dash.cards[rid] # NoCard
  /\ dash' = [dash EXCEPT !.cards[rid].status = status, !.cards[rid].chosen = TRUE]
  /\ UNCHANGED <<complaints, now, form, resp, http>>

\* the Textarea of a card: setResponse
setResponse(rid, response) ==
  /\ dash.cards[rid] # NoCard
  /\ dash' = [dash EXCEPT !.cards[rid].response = response]
  /\ UNCHANGED <<complaints, now, form, resp, http>>

\* handleSave of a card: onUpdate(complaint.id, status, response), which is
\* updateComplaint of the dashboard, up to its await
handleSave(rid) ==
  LET card == dash.cards[rid]
      r == DbUpdate(dash.user, rid, [status |-> card.status, admin_response |-> card.response],
                    complaints, now)
  IN /\ resp = NoResp
     /\ card # NoCard
     /\ complaints' = r.table
     /\ resp' = Response("handleSave", dash.user, r.error, r.rows)
     /\ UNCHANGED <<now, form, http, dash>>

\* updateComplaint of the dashboard after its await: the toast, and
\* loadComplaints() when the update did not fail
SaveReturn ==
  /\ resp.op = "handleSave"
  /\ resp' = NoResp
  /\ IF resp.error = "none"
       THEN /\ Outstanding < MaxReloads
            /\ dash' = [dash EXCEPT !.sent = @ + 1, !.loading = TRUE, !.cards = NoCards]
       ELSE UNCHANGED dash
  /\ UNCHANGED <<complaints, now, form, http>>

----------------------------------------------------------------------------
(* The clock *)

Tick ==
  /\ now < MaxTime
  /\ now' = now + 1
  /\ UNCHANGED <<complaints, form, resp, http, dash>>

----------------------------------------------------------------------------
(* The submission workflow: students submit through their forms *)

Init ==
  /\ complaints = <<>>
  /\ now = 0
  /\ form = [u \in Students |-> IdleForm]
  /\ resp = NoResp
  /\ http = NoHttp
  /\ dash = NoDashboard

\* the steps of the forms
NextForms ==
  \/ \E u \in Students, i \in FormInputs : HandleSubmit(u, i.title, i.description, i.category)
  \/ \E u \in Students, keySet \in BOOLEAN, up \in Upstreams : AnalyzeReturn(u, keySet, up)
  \/ \E u \in Students : InsertTrigger(u)
  \/ \E u \in Students : InsertCommit(u)
  \/ \E u \in Students : InsertReturn(u)

Next == NextForms \/ Tick

Spec == Init /\ [][Next]_vars

\* The awaited calls of a submission settle: the function call is answered,
\* the insert runs, is answered, and handleSubmit resumes
Settles(u) ==
  /\ WF_vars(\E keySet \in BOOLEAN, up \in Upstreams : AnalyzeReturn(u, keySet, up))
  /\ WF_vars(InsertTrigger(u))
  /\ WF_vars(InsertCommit(u))
  /\ WF_vars(InsertReturn(u))

\* the forms within one year, every awaited call settling
SpecSettling == Init /\ [][NextForms]_vars /\ \A u \in Students : Settles(u)

----------------------------------------------------------------------------
(* Requests sent straight to the complaints table. The policies are all that
   stands between an authenticated client and the table, so every actor may
   send every request. One request is outstanding at a time: the client reads
   the response before the next request is sent. *)

\* codes a client may supply: 'X' and 'CMP-<BaseYear>-002'
SuppliedCodes == {Code(0, <<"X">>), Code(BaseYear, <<"0", "0", "2">>)}

ApiPayload(owner, code) ==
  [student_id |-> owner,
   title |-> Text(0, 5, 0),
   description |-> Text(0, 20, 0),
   category |-> "Other",
   ai_suggested_category |-> UNDEF,
   priority |-> UNDEF,
   ai_priority_score |-> NoNumber,
   ai_suggested_response |-> UNDEF,
   complaint_id |-> code,
   status |-> UNDEF,
   admin_response |-> UNDEF]

\* from('complaints').insert(payload) as one transaction
ApiInsert(a, owner, code) ==
  LET p == ApiPayload(owner, code)
      err == InsertStatementError(a, p)
      new_row == set_complaint_id(NewRow(p, complaints, now), complaints, now)
  IN /\ resp = NoResp
     /\ Len(complaints) < MaxApiRows
     /\ IF err # "none"
          THEN /\ resp' = Response("insert", a, err, {})
               /\ UNCHANGED complaints
          ELSE IF UniqueViolation(new_row, complaints)
            THEN /\ resp' = Response("insert", a, "unique", {})
                 /\ UNCHANGED complaints
            ELSE /\ resp' = Response("insert", a, "none", {new_row.id})
                 /\ complaints' = Append(complaints, new_row)
     /\ UNCHANGED <<now, form, http, dash>>

\* the field sets a client may write
StatusPatches == {[status |-> st] : st \in complaint_status}
OwnerPatches == {[student_id |-> u] : u \in Students}
CodePatches == {[complaint_id |-> c] : c \in {EmptyCode} \cup SuppliedCodes}
ResponsePatches == {[admin_response |-> r] : r \in ResponseInputs}
AccessPatches == StatusPatches \cup OwnerPatches \cup ResponsePatches

\* from('complaints').update(patch).eq('id', rid)
ApiUpdate(a, rid, patch) ==
  LET r == DbUpdate(a, rid, patch, complaints, now)
  IN /\ resp = NoResp
     /\ rid \in 1..Len(complaints)
     /\ complaints' = r.table
     /\ resp' = Response("update", a, r.error, r.rows)
     /\ UNCHANGED <<now, form, http, dash>>

\* from('complaints').select('*')
ApiSelect(a) ==
  /\ resp = NoResp
  /\ resp' = Response("select", a, "none", DbSelect(a, complaints))
  /\ UNCHANGED <<complaints, now, form, http, dash>>

\* the client has read the response
ReadResponse ==
  /\ resp # NoResp
  /\ resp' = NoResp
  /\ UNCHANGED <<complaints, now, form, http, dash>>

\* Access: who may read and write which row. Codes are left to the trigger.
NextApi ==
  \/ \E a \in Users, owner \in Students : ApiInsert(a, owner, EmptyCode)
  \/ \E a \in Users, rid \in 1..MaxApiRows, patch \in AccessPatches : ApiUpdate(a, rid, patch)
  \/ \E a \in Users, rid \in 1..MaxApiRows, st \in STATUS_OPTIONS, r \in ResponseInputs :
       updateComplaint(a, rid, st, r)
  \/ \E a \in Users : ApiSelect(a)
  \/ ReadResponse

SpecApi == Init /\ [][NextApi]_vars

\* Ticket codes: owners insert with and without a code of their own, and
\* rewrite the code of a row, over the years
NextCodes ==
  \/ \E a \in Users, code \in {EmptyCode} \cup SuppliedCodes : ApiInsert(a, a, code)
  \/ \E a \in Users, rid \in 1..MaxApiRows, patch \in CodePatches : ApiUpdate(a, rid, patch)
  \/ ReadResponse
  \/ Tick

SpecCodes == Init /\ [][NextCodes]_vars

----------------------------------------------------------------------------
(* The advisory fields: owners insert, admins review, and every actor tries
   to overwrite a priority and an AI draft *)

AdvisoryPatches == {[priority |-> "High"], [ai_suggested_response |-> "edited"]}

NextAdvisory ==
  \/ \E a \in Users : ApiInsert(a, a, EmptyCode)
  \/ \E a \in Users, rid \in 1..MaxApiRows, patch \in AdvisoryPatches : ApiUpdate(a, rid, patch)
  \/ \E a \in Users, rid \in 1..MaxApiRows, st \in STATUS_OPTIONS, r \in ResponseInputs :
       updateComplaint(a, rid, st, r)
  \/ ReadResponse

SpecAdvisory == Init /\ [][NextAdvisory]_vars

----------------------------------------------------------------------------
(* A dashboard while students insert and an admin reviews *)

Dashboards == {"a1", "s1"}

\* the dashboard is opened before the first complaint is filed
MountFirst(d) == complaints = <<>> /\ Mount(d)
\* a student files a complaint
WatchedInsert(s) == Len(complaints) < MaxDashRows /\ ApiInsert(s, s, EmptyCode)

NextDash ==
  \/ \E d \in Dashboards : MountFirst(d)
  \/ \E s \in Students : WatchedInsert(s)
  \/ \E a \in Admins, rid \in 1..MaxDashRows, st \in STATUS_OPTIONS, r \in ResponseInputs :
       updateComplaint(a, rid, st, r)
  \/ ReadResponse
  \/ PostgresChange
  \/ LoadSelect
  \/ LoadReturn
  \/ ProfilesReturn

SpecDash == Init /\ [][NextDash]_vars

----------------------------------------------------------------------------
(* The cards of an admin dashboard while students file complaints and an
   admin reviews them from another session *)

\* the answer of a call that was not made by the dashboard is read
ReadOther == resp.op # "handleSave" /\ ReadResponse

NextCard ==
  \/ \E d \in Admins : MountFirst(d)
  \/ \E s \in Students : WatchedInsert(s)
  \/ \E a \in Admins, rid \in 1..MaxDashRows, st \in STATUS_OPTIONS, r \in ResponseInputs :
       updateComplaint(a, rid, st, r)
  \/ ReadOther
  \/ PostgresChange
  \/ LoadSelect
  \/ LoadReturn
  \/ ProfilesReturn
  \/ \E rid \in 1..MaxDashRows, st \in STATUS_OPTIONS : setStatus(rid, st)
  \/ \E rid \in 1..MaxDashRows, r \in ResponseInputs : setResponse(rid, r)
  \/ \E rid \in 1..MaxDashRows : handleSave(rid)
  \/ SaveReturn

SpecCard == Init /\ [][NextCard]_vars

----------------------------------------------------------------------------
(* The endpoint on its own: requests of any method, with and without a
   readable body, with and without the key, and every answer of the gateway *)

Methods == {"OPTIONS", "POST", "GET"}

Serve(method, bodyOk, keySet, up) ==
  LET r == serve(method, bodyOk, keySet, up)
      isError == "error" \in DOMAIN r.body
  IN /\ http' = [method |-> method, bodyOk |-> bodyOk, keySet |-> keySet, up |-> up,
                 status |-> r.status,
                 error |-> IF isError THEN r.body.error ELSE "none",
                 analysis |-> IF isError THEN JsonNull ELSE r.body]
     /\ UNCHANGED <<complaints, now, form, resp, dash>>

NextEndpoint ==
  \E method \in Methods, bodyOk \in BOOLEAN, keySet \in BOOLEAN, up \in Upstreams :
    Serve(method, bodyOk, keySet, up)

SpecEndpoint == Init /\ [][NextEndpoint]_vars

----------------------------------------------------------------------------
(* The validator on its own: a fresh form, texts of the lengths around the
   limits, with and without blanks around them *)

BoundaryTitles ==
  {Text(0, n, 0) : n \in {0, TITLE_MIN - 1, TITLE_MIN, TITLE_MAX, TITLE_MAX + 1}}
  \cup {Text(MaxPad, TITLE_MIN - 1, 0), Text(0, TITLE_MAX, MaxPad), Text(1, TITLE_MAX + 1, 1)}
BoundaryDescriptions ==
  {Text(0, n, 0) : n \in {0, DESCRIPTION_MIN - 1, DESCRIPTION_MIN, DESCRIPTION_MAX,
                          DESCRIPTION_MAX + 1}}
  \cup {Text(MaxPad, DESCRIPTION_MIN - 1, 0), Text(0, DESCRIPTION_MAX, MaxPad),
        Text(1, DESCRIPTION_MAX + 1, 1)}
BoundaryCategories == categories \cup {"", "Parking"}

NextValidate ==
  \E t \in BoundaryTitles, d \in BoundaryDescriptions, c \in BoundaryCategories :
    /\ form["s1"] = IdleForm
    /\ HandleSubmit("s1", t, d, c)

SpecValidate == Init /\ [][NextValidate]_vars

----------------------------------------------------------------------------
(* Properties *)

Row(rid) == complaints[rid]
RowIds == 1..Len(complaints)
Stranger(a, row) == a # row.student_id /\ ~has_role(a, "admin")
\* this step sends a request op of actor a to the table
Sent(op, a) == resp = NoResp /\ resp'.op = op /\ resp'.actor = a

\* C1: two submissions of one calendar year whose inserts interleave (both
\* triggers have run before either row is committed) hold distinct codes, and
\* neither insert is lost to the unique index.
C1_InterleavedInsertsGetDistinctCodes ==
  /\ \A u, v \in Students :
       (/\ u # v
        /\ form[u].pc = "triggered"
        /\ form[v].pc = "triggered"
        /\ form[u].req.created_at = form[v].req.created_at)
       => form[u].req.complaint_id # form[v].req.complaint_id
  /\ \A u \in Students : form[u].error # "unique"

\* the sequence number n as three digits (n < 1000)
ThreeDigits(n) ==
  <<DigitChars[(n \div 100) + 1], DigitChars[((n \div 10) % 10) + 1], DigitChars[(n % 10) + 1]>>

\* how many rows up to row i were inserted in the year of row i
NthOfYear(i) ==
  Cardinality({j \in 1..i : YearOf(Row(j).created_at) = YearOf(Row(i).created_at)})

\* C2: in every state of the table no two rows carry the same code, and the
\* n-th row inserted in a calendar year carries CMP-<year>-<n as three digits>.
C2_CodesUniqueAndSequentialPerYear ==
  /\ \A i, j \in RowIds : i # j => Row(i).complaint_id # Row(j).complaint_id
  /\ \A i \in RowIds :
       Row(i).complaint_id = Code(YearOf(Row(i).created_at), ThreeDigits(NthOfYear(i)))

\* C3: a submission whose classification failed (in any failure mode) never
\* gets a row committed.
C3_FailedClassificationNeverPersists ==
  \A u \in Students :
    form[u].fault # "none" => ~(form[u].pc = "responded" /\ form[u].error = "none")

AllPatches == AccessPatches \cup CodePatches

\* C4: an actor who neither owns a row nor is an admin is never given the row by
\* a select, never changes it by an update, and never inserts a row owned by
\* someone else.
C4_StrangersNeitherReadNorWrite ==
  [][\A a \in Users :
       /\ (Sent("select", a) /\ ApiSelect(a)) => \A rid \in resp'.rows : ~Stranger(a, Row(rid))
       /\ \A rid \in RowIds, patch \in AllPatches :
            (Sent("update", a) /\ Stranger(a, Row(rid)) /\ ApiUpdate(a, rid, patch))
            => (complaints' = complaints /\ resp'.rows = {})
       /\ \A owner \in Students, code \in {EmptyCode} \cup SuppliedCodes :
            (Sent("insert", a) /\ Stranger(a, [student_id |-> owner]) /\ ApiInsert(a, owner, code))
            => (complaints' = complaints /\ resp'.error # "none")
    ]_vars

\* a student who owns none of the rows selected and got nothing, then was
\* refused an update
C4_Witness ==
  /\ complaints # <<>>
  /\ resp.actor \in Students
  /\ \A rid \in RowIds : Stranger(resp.actor, Row(rid))
  /\ resp.op = "update"
  /\ resp.rows = {}

\* the patch leaves field f at v: it does not write f, or writes v
PatchKeeps(patch, f, v) == f \in DOMAIN patch => patch[f] = v

\* C5 (as amended): a student's update of a complaint of their own is applied
\* when the complaint is Pending and the updated row is still Pending and still
\* theirs; it is refused, the table unchanged, when the update would move the
\* row out of Pending or to another owner, and whenever the complaint is In
\* Progress, Resolved or Withdrawn.
C5_OwnerWritesOnlyPendingToPending ==
  [][\A a \in Students \ Admins, rid \in RowIds, patch \in AccessPatches :
       (Sent("update", a) /\ Row(rid).student_id = a /\ ApiUpdate(a, rid, patch))
       => IF /\ Row(rid).status = "Pending"
             /\ PatchKeeps(patch, "status", "Pending")
             /\ PatchKeeps(patch, "student_id", a)
            THEN /\ resp'.error = "none"
                 /\ resp'.rows = {rid}
                 /\ \A f \in DOMAIN patch : complaints'[rid][f] = patch[f]
            ELSE /\ complaints' = complaints
                 /\ resp'.rows = {}
    ]_vars

\* C5 as stated: a student's update of a complaint of their own is applied
\* whenever the complaint is Pending, and refused, the row unchanged, whenever
\* it is In Progress, Resolved or Withdrawn.
C5_OwnerWritesWheneverPending ==
  [][\A a \in Students \ Admins, rid \in RowIds, patch \in AccessPatches :
       (Sent("update", a) /\ Row(rid).student_id = a /\ ApiUpdate(a, rid, patch))
       => IF Row(rid).status = "Pending"
            THEN /\ resp'.error = "none"
                 /\ resp'.rows = {rid}
            ELSE /\ complaints' = complaints
                 /\ resp'.rows = {}
    ]_vars

\* a student was refused an update of a Pending complaint of their own
C5_Witness ==
  /\ resp.op = "update"
  /\ resp.actor \in Students
  /\ resp.error = "row-level security"
  /\ \E rid \in RowIds : Row(rid).student_id = resp.actor /\ Row(rid).status = "Pending"

\* C6: the student_id a complaint was created with is its student_id in every
\* later state: no update changes the owner of a row.
C6_OwnerNeverChanges ==
  [][\A rid \in RowIds : complaints'[rid].student_id = complaints[rid].student_id]_vars

\* C7: updateComplaint leaves every other row as it was and, in the row it
\* targets, every column but status, admin_response and updated_at (so
\* student_id, title, description and complaint_id among them).
C7_AdminUpdateWritesStatusAndResponseOnly ==
  [][\A a \in Users, rid \in RowIds, st \in STATUS_OPTIONS, r \in ResponseInputs :
       (Sent("updateComplaint", a) /\ updateComplaint(a, rid, st, r))
       => /\ Len(complaints') = Len(complaints)
          /\ \A i \in RowIds : i # rid => complaints'[i] = complaints[i]
          /\ \A f \in {"id", "student_id", "title", "description", "complaint_id", "category",
                       "ai_suggested_category", "priority", "ai_priority_score",
                       "ai_suggested_response", "created_at"} :
               complaints'[rid][f] = complaints[rid][f]
    ]_vars

\* an admin's updateComplaint has resolved one of two complaints with a reply
C7_Witness ==
  /\ resp.op = "updateComplaint"
  /\ resp.actor \in Admins
  /\ Len(complaints) = 2
  /\ \E rid \in resp.rows : Row(rid).status = "Resolved" /\ Row(rid).admin_response = "reply"

\* the three rules, on the texts as typed
MeetsRules(title, description, category) ==
  /\ Len(Trim(title)) >= 5 /\ Len(Trim(title)) <= 200
  /\ Len(Trim(description)) >= 20 /\ Len(Trim(description)) <= 2000
  /\ category # ""

\* C8: a submission whose input breaks a rule stops there: the form goes on to
\* no call, and the table, the clock and the direct requests stay as they were.
\* A form starts the classification call only with input that meets the rules.
C8_InvalidInputIsBlockedBeforeAnyCall ==
  [][\A u \in Students :
       /\ \A i \in FormInputs :
            (/\ HandleSubmit(u, i.title, i.description, i.category)
             /\ ~MeetsRules(i.title, i.description, i.category))
            => /\ form'[u].pc = "idle"
               /\ ~form'[u].loading
               /\ form'[u].req = NoRequest
               /\ ErrorKeys(form'[u].errors) # {}
               /\ complaints' = complaints
       /\ (form[u].pc = "idle" /\ form'[u].pc = "invoking")
          => MeetsRules(form'[u].title, form'[u].description, form'[u].category)
    ]_vars

\* one form shows validation errors while the other has a call in flight
C8_Witness ==
  \E u, v \in Students :
    /\ ErrorKeys(form[u].errors) # {}
    /\ form[u].pc = "idle"
    /\ ~form[u].loading
    /\ form[v].pc = "invoking"

\* the form of s1 has been submitted
Submitted == form["s1"] # IdleForm
Accepted == form["s1"].pc = "invoking"

\* C9 (as amended): with lengths counted after leading and trailing blanks are
\* removed, a title shorter than 5 or longer than 200 gets a title error, a
\* description shorter than 20 or longer than 2000 gets a description error,
\* and lengths inside the limits (5, 200, 20 and 2000 among them) get none.
C9_TrimmedLengthsDecide ==
  Submitted =>
    /\ "title" \in ErrorKeys(form["s1"].errors)
         <=> (Len(Trim(form["s1"].title)) < 5 \/ Len(Trim(form["s1"].title)) > 200)
    /\ "description" \in ErrorKeys(form["s1"].errors)
         <=> (Len(Trim(form["s1"].description)) < 20 \/ Len(Trim(form["s1"].description)) > 2000)
    /\ Accepted <=> ErrorKeys(form["s1"].errors) = {}

\* C9 as stated: the lengths are those of the texts as typed.
C9_TypedLengthsDecide ==
  Submitted =>
    /\ "title" \in ErrorKeys(form["s1"].errors)
         <=> (Len(form["s1"].title) < 5 \/ Len(form["s1"].title) > 200)
    /\ "description" \in ErrorKeys(form["s1"].errors)
         <=> (Len(form["s1"].description) < 20 \/ Len(form["s1"].description) > 2000)

\* a title of 200 letters between blanks and a description of 2000 letters
\* followed by blanks were accepted
C9_Witness ==
  /\ Accepted
  /\ Len(form["s1"].title) > 200
  /\ Len(Trim(form["s1"].title)) = 200
  /\ Len(form["s1"].description) > 2000
  /\ Len(Trim(form["s1"].description)) = 2000

\* C10: a submission gets a category error exactly when its category is not
\* one of the six values, so none is accepted with another category.
C10_OnlyTheSixCategoriesPass ==
  Submitted =>
    /\ "category" \in ErrorKeys(form["s1"].errors) <=> form["s1"].category \notin categories
    /\ Accepted => form["s1"].category \in categories

\* the fields of the submitted form of s1 that break their rule
InvalidFields ==
  {k \in Fields :
     \/ k = "title" /\ (Len(Trim(form["s1"].title)) < 5 \/ Len(Trim(form["s1"].title)) > 200)
     \/ k = "description" /\ (\/ Len(Trim(form["s1"].description)) < 20
                              \/ Len(Trim(form["s1"].description)) > 2000)
     \/ k = "category" /\ form["s1"].category \notin categories}

\* C11: a submission whose category is one the select offers, or none, shows
\* an error for every field that breaks its rule, all at once: the keys of
\* the error map are exactly the invalid fields.
C11_EveryInvalidFieldGetsItsError ==
  (Submitted /\ form["s1"].category \in categories \cup {""})
  => ErrorKeys(form["s1"].errors) = InvalidFields

\* a submission with all three fields invalid shows three errors
C11_Witness ==
  /\ Submitted
  /\ InvalidFields = Fields
  /\ ErrorKeys(form["s1"].errors) = Fields

\* the insert of u's submission is answered in this step
InsertAnswered(u) == form[u].pc \in {"inserting", "triggered"} /\ form'[u].pc = "responded"

\* C12: a valid submission whose classification succeeded gets exactly one new
\* row: owned by the submitter, Pending, with a ticket code, and with the
\* priority, score, suggested category and suggested response of the
\* classification response.
C12_ClassifiedSubmissionIsStoredAsAnswered ==
  [][\A u \in Students :
       (InsertAnswered(u) /\ form[u].fault = "none")
       => /\ form'[u].error = "none"
          /\ Len(complaints') = Len(complaints) + 1
          /\ LET row == complaints'[Len(complaints')]
                 fd == form[u].functionData
             IN /\ row.student_id = u
                /\ row.status = "Pending"
                /\ row.complaint_id \notin {EmptyCode, NullCode}
                /\ row.priority = fd.priority
                /\ row.ai_priority_score = fd.priorityScore
                /\ row.ai_suggested_category = fd.suggestedCategory
                /\ row.ai_suggested_response = fd.suggestedResponse
    ]_vars

\* the form of u holds a classification result returned as a success
HoldsResult(u) == form[u].pc \in {"inserting", "triggered", "responded"}

\* C13: every classification result returned as a success has the four fields:
\* a suggested category among the six, a priority among Low, Medium and High,
\* a score in [0,1] (0..1000 thousandths) and a response text.
C13_ReturnedResultsAreWellFormed ==
  \A u \in Students :
    HoldsResult(u) =>
      LET fd == form[u].functionData
      IN /\ ~fd.isNull
         /\ fd.suggestedCategory \in categories
         /\ fd.priority \in {"Low", "Medium", "High"}
         /\ fd.priorityScore # NoNumber
         /\ fd.priorityScore[1] >= 0 /\ fd.priorityScore[1] <= 1000
         /\ fd.suggestedResponse \notin {UNDEF, NULL}

\* the endpoint has served a request that is not OPTIONS
Served == http.method \notin {"none", "OPTIONS"}
\* what went wrong with the served request, from the request and the gateway's answer
ReachedGateway == http.bodyOk /\ http.keySet
RateLimited == ReachedGateway /\ ~http.up.ok /\ http.up.status = 429
BillingRejected == ReachedGateway /\ ~http.up.ok /\ http.up.status = 402
NoCredential == http.bodyOk /\ ~http.keySet
OtherFault ==
  \/ ~http.bodyOk
  \/ ReachedGateway /\ ~http.up.ok /\ http.up.status \notin {429, 402}
  \/ ReachedGateway /\ http.up.ok /\ ~http.up.toolCall
  \/ ReachedGateway /\ http.up.ok /\ http.up.toolCall /\ ~http.up.arguments.valid

\* C14: a request other than OPTIONS is answered with the analysis (200) or
\* with an error message: 429 exactly for a rate-limit rejection, 402 exactly
\* for a billing rejection, 500 exactly for every other fault (no key, another
\* gateway status, no tool call, arguments that are not JSON, an unreadable
\* body); the missing key is told apart from the other 500s by its message.
C14_FaultsMapTo429_402_500 ==
  Served =>
    /\ http.status \in {200, 429, 402, 500}
    /\ http.status = 200 <=> http.error = "none"
    /\ http.status = 429 <=> RateLimited
    /\ http.status = 402 <=> BillingRejected
    /\ http.status = 500 <=> (NoCredential \/ OtherFault)
    /\ http.error = "LOVABLE_API_KEY is not configured" <=> NoCredential

\* a POST was refused for billing with 402 and a message
C14_Witness ==
  /\ http.method = "POST"
  /\ BillingRejected
  /\ http.status = 402
  /\ http.error # "none"

\* C15: the priority, the AI-suggested category, the AI score and the AI draft
\* of a complaint are written at creation only: no step changes them in a row
\* of the table.
C15_AdvisoryFieldsWrittenOnce ==
  [][\A rid \in RowIds :
       /\ complaints'[rid].priority = complaints[rid].priority
       /\ complaints'[rid].ai_suggested_category = complaints[rid].ai_suggested_category
       /\ complaints'[rid].ai_priority_score = complaints[rid].ai_priority_score
       /\ complaints'[rid].ai_suggested_response = complaints[rid].ai_suggested_response
    ]_vars

\* a review of the admin dashboard moves complaint rid to status t: the card
\* saves one of the statuses its select offers
ReviewMoves(rid, t) ==
  \E a \in Admins, st \in STATUS_OPTIONS, r \in ResponseInputs :
    updateComplaint(a, rid, st, r) /\ complaints'[rid].status = t

\* a step changes the status of complaint rid
StatusChanged(rid) == complaints'[rid].status # complaints[rid].status

\* C16: every change of a complaint's status is made by a request of an admin,
\* and whatever the status of a complaint, a review can move it to each of the
\* other three statuses.
C16_AdminsMoveAnyStatusToAnyOther ==
  /\ [][\A rid \in RowIds : StatusChanged(rid) => resp'.actor \in Admins]_vars
  /\ [](\A rid \in RowIds : \A t \in complaint_status \ {Row(rid).status} :
          resp = NoResp => ENABLED ReviewMoves(rid, t))

\* the classification call or the insert of the form of u is in flight
CallOrInsertInFlight(u) == form[u].pc \in {"invoking", "inserting", "triggered", "responded"}

\* C17: while the classification call or the insert of a form is in flight its
\* submit button is disabled, a form never has more than one submission in
\* flight, and a submission adds at most one row: a row is added only by the
\* insert of a submission in flight, which is thereby answered and goes on to
\* its end.
C17_OneSubmissionInFlightPerForm ==
  [][/\ \A u \in Students :
          /\ CallOrInsertInFlight(u)' => form'[u].loading
          /\ form'[u].calls <= 1
          /\ form'[u].loading <=> form'[u].calls = 1
          /\ form[u].loading => \A i \in FormInputs :
                                  ~HandleSubmit(u, i.title, i.description, i.category)
          /\ form[u].pc = "responded" => form'[u].pc \in {"responded", "idle"}
     /\ Len(complaints') > Len(complaints)
        => /\ Len(complaints') = Len(complaints) + 1
           /\ \E u \in Students :
                /\ form[u].pc = "triggered"
                /\ form'[u].pc = "responded"
                /\ complaints'[Len(complaints')].student_id = u
    ]_vars

\* a student who already has a complaint stored has the insert of the next
\* submission in flight, button disabled
C17_Witness ==
  \E u \in Students :
    /\ form[u].pc = "triggered"
    /\ form[u].loading
    /\ \E rid \in RowIds : Row(rid).student_id = u

\* the form of u is back at rest with its button enabled
AtRest(u) == form[u].pc = "idle" /\ ~form[u].loading /\ form[u].calls = 0

\* C18: every submission ends. One that fails validation ends at once with
\* field errors; one that went on ends, whatever fails or succeeds, with the
\* Error or the Success toast; either way the form is idle again with its
\* button enabled.
C18_EverySubmissionEndsWithAMessage ==
  /\ \A u \in Students : ~AtRest(u) ~> AtRest(u)
  /\ [][\A u \in Students :
          /\ (~AtRest(u) /\ AtRest(u)') => form'[u].toast \in {"Error", "Success"}
          /\ form'[u].pc = "idle" => AtRest(u)'
          /\ \A i \in FormInputs :
               (/\ HandleSubmit(u, i.title, i.description, i.category)
                /\ form'[u].pc = "idle")
               => ErrorKeys(form'[u].errors) # {}
       ]_vars

\* a submission whose insert failed has ended with the Error toast
C18_Witness ==
  \E u \in Students :
    /\ AtRest(u)
    /\ form[u].toast = "Error"
    /\ \E v \in Students \ {u} : form[v].toast = "Success"

\* the mounted dashboard has no change left to hear of and no reload in flight
Quiet ==
  /\ dash.user # "none"
  /\ dash.notified = DashboardRows(dash.user, complaints)
  /\ Outstanding = 0

\* C19: when every change has been delivered and every reload it triggered
\* has completed, the list of the dashboard is what the table holds for its
\* user, in whatever order the answers of the reloads arrived.
C19_QuietDashboardShowsTheTable ==
  Quiet => dash.list = DashboardRows(dash.user, complaints)

\* C20: an insert that supplies no code and runs alone never fails on the
\* unique constraint of complaint_id, whatever inserts with a code of their own
\* and updates of complaint_id came before.
C20_GeneratedCodeIsNeverTaken ==
  [][\A a \in Users :
       (Sent("insert", a) /\ ApiInsert(a, a, EmptyCode)) => resp'.error # "unique"
    ]_vars

\* C21: a save from a card whose status the admin did not choose leaves the
\* stored status of every such complaint as it was immediately before the
\* save, whatever updates by other sessions and reloads came before.
C21_SaveWithoutChosenStatusKeepsStatus ==
  [][Sent("handleSave", dash.user) =>
       \A rid \in RowIds : ~dash.cards[rid].chosen => Row(rid)'.status = Row(rid).status
    ]_vars

====
